---- MODULE Spec2Model ----
(***************************************************************************)
(* Model of the Partner hierarchy of src/partner.go: parent/child forest,  *)
(* stored CommercialPartner, FieldsSync on create/write, the first-contact *)
(* bootstrap rule and AddressGet.                                          *)
(*                                                                         *)
(* The store is a sequence of partner records; a record's ID is its index. *)
(* The empty record set (Parent unset) is ID 0.  Field values other than   *)
(* Parent, IsCompany, Active and Type are naturals, 0 being the Go zero    *)
(* value (typesutils.IsZero).  A PartnerData (vals) is a function from the *)
(* field names it Has to their values.  A record set is a sequence of IDs. *)
(***************************************************************************)
EXTENDS Naturals, Sequences, FiniteSets, TLC

\* Bounds of the model.
MaxPartners == 3
MaxVal == 2
MaxOps == 4
\* The number of FieldsSync invocations of one create or write after which
\* the call is given up as not terminating.
MaxSyncs == 6

\* partners: the store; last: the last operation and its outcome; nops: the
\* number of operations so far, in the specifications that bound it.
VARIABLES partners, last, nops
vars == <<partners, last, nops>>

---------------------------------------------------------------------------
\* Field lists

AddressFields == <<"Street", "Street2", "Zip", "City", "State", "Country">>

CommercialFields == <<"VAT", "CreditLimit">>

Range(s) == {s[i] : i \in 1..Len(s)}

IsZero(v) == v = 0

\* Field defaults of a new record (Default: of the field declarations).
NewPartner ==
  [Parent |-> 0, IsCompany |-> FALSE, Active |-> TRUE, Type |-> "contact",
   CommercialPartner |-> 0, VAT |-> 0, CreditLimit |-> 0,
   Street |-> 0, Street2 |-> 0, Zip |-> 0, City |-> 0, State |-> 0, Country |-> 0]

Has(vals, f) == f \in DOMAIN vals

\* Mutant: vals always counts as having a Parent.
ValsParentIsEmptyNever(vals) == FALSE

\* vals.Parent().IsEmpty()
ValsParentIsEmpty(vals) == ~Has(vals, "Parent") \/ vals["Parent"] = 0

\* Mutant: every value of vals is kept.
RestrictNone(vals, S) == vals

Restrict(vals, S) == [f \in (DOMAIN vals) \cap S |-> vals[f]]

\* The record r with the values of vals, on the fields of todo, written to it.
RECURSIVE SetFields(_, _, _)
SetFields(r, vals, todo) ==
  IF todo = {} THEN r
  ELSE LET f == CHOOSE g \in todo : TRUE
       IN SetFields([r EXCEPT ![f] = vals[f]], vals, todo \ {f})

\* The record r with the values of vals written to it.
Merge(r, vals) == SetFields(r, vals, DOMAIN vals)

\* The store with vals written to the records rs[i], rs[i+1], ...
RECURSIVE WriteRecords(_, _, _, _)
WriteRecords(recs, rs, vals, i) ==
  IF i > Len(rs) THEN recs
  ELSE WriteRecords([recs EXCEPT ![rs[i]] = Merge(recs[rs[i]], vals)], rs, vals, i + 1)

Ids(recs) == [i \in 1..Len(recs) |-> i]

\* Mutant: only the first child the store returns.
ChildrenOrdFirst(recs, id, ord) ==
  LET cs == SelectSeq(ord, LAMBDA c : recs[c].Parent = id /\ recs[c].Active)
  IN IF cs = <<>> THEN <<>> ELSE <<cs[1]>>

\* rs.Children() in the order ord the store returns records in: the active
\* records whose Parent is id.
ChildrenOrd(recs, id, ord) ==
  SelectSeq(ord, LAMBDA c : recs[c].Parent = id /\ recs[c].Active)

Children(recs, id) == ChildrenOrd(recs, id, Ids(recs))

\* UpdateFieldValues: this partner's values on the given fields.
UpdateFieldValues(recs, id, fields) == [f \in fields |-> recs[id][f]]

---------------------------------------------------------------------------
\* Hierarchy validator and commercial resolver

\* Walks the Parent links from cur; TRUE when the walk meets target.
RECURSIVE ReachesUp(_, _, _, _)
ReachesUp(recs, cur, target, fuel) ==
  IF cur = 0 THEN FALSE
  ELSE IF cur = target THEN TRUE
  ELSE IF fuel = 0 THEN FALSE
  ELSE ReachesUp(recs, recs[cur].Parent, target, fuel - 1)

\* Mutant: only a partner that is its own parent is detected.
CheckRecursionDirectOnly(recs, id) == recs[id].Parent # id

\* rs.CheckRecursion(): FALSE when id is its own transitive ancestor.
CheckRecursion(recs, id) == ~ReachesUp(recs, recs[id].Parent, id, Len(recs))

\* CheckParent, the constraint of the Parent field: TRUE when it does not panic.
CheckParent(recs, id) == CheckRecursion(recs, id)

\* Mutant: the commercial partner of a partner with a parent is always the
\* parent's, company or not.
ComputeCommercialPartnerNoCompany(recs, id) ==
  IF recs[id].Parent # 0 THEN recs[recs[id].Parent].CommercialPartner ELSE id

\* Mutant: the parent itself instead of the parent's CommercialPartner.
ComputeCommercialPartnerParent(recs, id) ==
  IF ~recs[id].IsCompany /\ recs[id].Parent # 0 THEN recs[id].Parent ELSE id

\* ComputeCommercialPartner: the record itself when it is a company or has
\* no parent, the parent's stored CommercialPartner otherwise.
ComputeCommercialPartner(recs, id) ==
  IF ~recs[id].IsCompany /\ recs[id].Parent # 0
  THEN recs[recs[id].Parent].CommercialPartner
  ELSE id

\* The records whose stored CommercialPartner depends on that of the records
\* of rs (Depends: "Parent.CommercialPartner").
Dependents(recs, rs) == SelectSeq(Ids(recs), LAMBDA c : recs[c].Parent \in Range(rs))

\* Recomputation of the stored field CommercialPartner for the records of
\* todo; a record whose value changes triggers its dependents.
RECURSIVE RecomputeCommercialPartner(_, _)
RecomputeCommercialPartner(recs, todo) ==
  IF todo = <<>> THEN recs
  ELSE LET id == Head(todo)
           new == ComputeCommercialPartner(recs, id)
       IN IF new = recs[id].CommercialPartner
          THEN RecomputeCommercialPartner(recs, Tail(todo))
          ELSE RecomputeCommercialPartner(
                 [recs EXCEPT ![id].CommercialPartner = new],
                 Tail(todo) \o Dependents(recs, <<id>>))

\* Mutant: a write of IsCompany triggers no recomputation.
TriggeredNoIsCompany(recs, rs, vals) ==
  (IF Has(vals, "Parent") THEN rs ELSE <<>>)
    \o (IF Has(vals, "CommercialPartner") THEN Dependents(recs, rs) ELSE <<>>)

\* The records to recompute after vals was written on rs
\* (Depends: "IsCompany", "Parent", "Parent.CommercialPartner").
Triggered(recs, rs, vals) ==
  (IF Has(vals, "IsCompany") \/ Has(vals, "Parent") THEN rs ELSE <<>>)
    \o (IF Has(vals, "CommercialPartner") THEN Dependents(recs, rs) ELSE <<>>)

---------------------------------------------------------------------------
\* Write, Create and the field synchronizer.  These operators thread a
\* database value db = [recs, panic, syncs, adopted]: the store, whether a
\* log.Panic has aborted the call, the number of FieldsSync invocations so
\* far and whether HandleFirsrtContactCreation wrote the parent's address.

\* rs.Super().Write(vals): the store's write, the recomputation of the
\* stored computed fields and the constraint of the Parent field.
SuperWrite(db, rs, vals) ==
  LET recs1 == WriteRecords(db.recs, rs, vals, 1)
  IN IF Has(vals, "Parent") /\ \E i \in Range(rs) : ~CheckParent(recs1, i)
     THEN [db EXCEPT !.panic = TRUE]
     ELSE [db EXCEPT !.recs = RecomputeCommercialPartner(recs1, Triggered(recs1, rs, vals))]

\* OnchangeParent: the parent's address when the partner is a contact whose
\* parent has some address field set, no value otherwise.
OnchangeParent(recs, id) ==
  IF recs[id].Parent = 0 \/ recs[id].Type # "contact" THEN <<>>
  ELSE IF \A i \in 1..Len(AddressFields) : IsZero(recs[recs[id].Parent][AddressFields[i]])
       THEN <<>>
       ELSE UpdateFieldValues(recs, recs[id].Parent, Range(AddressFields))

RECURSIVE Write(_, _, _, _)
RECURSIVE FieldsSync(_, _, _)
RECURSIVE FieldsSyncRecords(_, _, _, _)
RECURSIVE CommercialSyncToChildren(_, _)
RECURSIVE SyncEachChild(_, _, _)

\* Mutant: no address is written.
UpdateAddressNone(db, rs, vals) == db

\* UpdateAddress: writes the address fields of vals, with goto_super set.
UpdateAddress(db, rs, vals) ==
  LET res == Restrict(vals, Range(AddressFields))
  IN IF DOMAIN res = {} THEN db ELSE Write(db, rs, res, TRUE)

\* Mutant: the commercial fields are never taken from the commercial partner.
CommercialSyncFromCompanyNever(db, id) == db

\* CommercialSyncFromCompany
CommercialSyncFromCompany(db, id) ==
  IF id = db.recs[id].CommercialPartner THEN db
  ELSE Write(db, <<id>>,
             UpdateFieldValues(db.recs, db.recs[id].CommercialPartner, Range(CommercialFields)),
             FALSE)

\* Mutant: the children's own descendants are not synchronized.
SyncEachChildSkipped(db, children, i) == db

\* for _, child := range syncChildren.Records() { child.CommercialSyncToChildren() }
SyncEachChild(db, children, i) ==
  IF i > Len(children) THEN db
  ELSE SyncEachChild(CommercialSyncToChildren(db, children[i]), children, i + 1)

\* Mutant: the children that are companies are synchronized too.
CommercialSyncToChildrenAll(db, id) ==
  IF db.panic THEN db
  ELSE LET partnerData == UpdateFieldValues(db.recs, db.recs[id].CommercialPartner,
                                            Range(CommercialFields))
           syncChildren == Children(db.recs, id)
       IN IF syncChildren = <<>> THEN db
          ELSE LET d1 == SyncEachChild(db, syncChildren, 1)
               IN Write(d1, syncChildren,
                        partnerData @@ ("CommercialPartner" :> d1.recs[id].CommercialPartner),
                        FALSE)

\* CommercialSyncToChildren
CommercialSyncToChildren(db, id) ==
  IF db.panic THEN db
  ELSE LET partnerData == UpdateFieldValues(db.recs, db.recs[id].CommercialPartner,
                                            Range(CommercialFields))
           syncChildren == SelectSeq(Children(db.recs, id), LAMBDA c : ~db.recs[c].IsCompany)
       IN IF syncChildren = <<>> THEN db
          ELSE LET d1 == SyncEachChild(db, syncChildren, 1)
               IN Write(d1, syncChildren,
                        partnerData @@ ("CommercialPartner" :> d1.recs[id].CommercialPartner),
                        FALSE)

\* FieldsSync.  A call that has invoked FieldsSync MaxSyncs times is given
\* up (db.syncs = MaxSyncs + 1) instead of being followed further.
FieldsSync(db, id, vals) ==
  IF db.panic THEN db
  ELSE IF db.syncs >= MaxSyncs THEN [db EXCEPT !.panic = TRUE, !.syncs = @ + 1]
  ELSE
    LET d0 == [db EXCEPT !.syncs = @ + 1]
        \* 1a. Commercial fields: sync if parent changed
        d1 == IF ~ValsParentIsEmpty(vals) THEN CommercialSyncFromCompany(d0, id) ELSE d0
        \* 1b. Address fields: sync from the parent of a contact
        d2 == IF d1.recs[id].Parent # 0 /\ d1.recs[id].Type = "contact"
              THEN UpdateAddress(d1, <<id>>, OnchangeParent(d1.recs, id))
              ELSE d1
    IN IF Children(d2.recs, id) = <<>> THEN d2
       ELSE
         LET \* 2a. Commercial fields: sync if commercial entity
             d3 == IF id = d2.recs[id].CommercialPartner
                      /\ \E i \in 1..Len(CommercialFields) :
                            ~IsZero(d2.recs[id][CommercialFields[i]])
                   THEN CommercialSyncToChildren(d2, id)
                   ELSE d2
             personChildren == SelectSeq(Children(d3.recs, id),
                                         LAMBDA c : ~d3.recs[c].IsCompany)
             d4 == IF \E i \in 1..Len(personChildren) :
                        d3.recs[personChildren[i]].CommercialPartner
                          # d3.recs[id].CommercialPartner
                   THEN CommercialSyncToChildren(d3, id)
                   ELSE d3
             \* 2b. Address fields: sync if address changed
             contacts == SelectSeq(Children(d4.recs, id),
                                   LAMBDA c : d4.recs[c].Type = "contact")
         IN IF \E i \in 1..Len(AddressFields) : Has(vals, AddressFields[i])
            THEN UpdateAddress(d4, contacts, vals)
            ELSE d4

\* for _, partner := range rs.Records() { partner.FieldsSync(vals) }
FieldsSyncRecords(db, rs, vals, i) ==
  IF i > Len(rs) THEN db
  ELSE FieldsSyncRecords(FieldsSync(db, rs[i], vals), rs, vals, i + 1)

\* Write: with goto_super in the context only the store's write, otherwise
\* the store's write followed by FieldsSync on each record.
Write(db, rs, vals, gotoSuper) ==
  IF db.panic THEN db
  ELSE IF gotoSuper THEN SuperWrite(db, rs, vals)
  ELSE FieldsSyncRecords(SuperWrite(db, rs, vals), rs, vals, 1)

\* Mutant: the parent never takes the address of its first contact.
HandleFirsrtContactCreationNever(db, id) == db

\* HandleFirsrtContactCreation.  The children of an empty parent are an empty
\* set, so a partner without parent returns at the second test.  db.adopted
\* records that the parent's address was written.
HandleFirsrtContactCreation(db, id) ==
  LET recs == db.recs
      p == recs[id].Parent
  IN IF db.panic \/ p = 0 THEN db
     ELSE IF ~recs[p].IsCompany /\ recs[p].Parent # 0 THEN db
     ELSE IF Len(Children(recs, p)) # 1 THEN db
     ELSE LET addressDefined ==
                \E i \in 1..Len(AddressFields) : ~IsZero(recs[id][AddressFields[i]])
              parentAddressDefined ==
                \E i \in 1..Len(AddressFields) : ~IsZero(recs[p][AddressFields[i]])
          IN IF addressDefined /\ ~parentAddressDefined
             THEN UpdateAddress([db EXCEPT !.adopted = TRUE], <<p>>,
                                UpdateFieldValues(recs, id, Range(AddressFields)))
             ELSE db

\* rs.Super().Create(vals): the new record with its defaults, vals and its
\* stored computed fields.
SuperCreate(db, vals) ==
  LET id == Len(db.recs) + 1
      recs1 == Append(db.recs, Merge(NewPartner, vals))
  IN [db EXCEPT !.recs = [recs1 EXCEPT ![id].CommercialPartner =
                                         ComputeCommercialPartner(recs1, id)]]

\* Create
Create(db, vals) ==
  LET id == Len(db.recs) + 1
  IN HandleFirsrtContactCreation(FieldsSync(SuperCreate(db, vals), id, vals), id)

---------------------------------------------------------------------------
\* Address resolver

\* Mutant: a later record of a wanted type replaces the recorded match.
RECURSIVE ScanLoopLastWins(_, _, _, _)
ScanLoopLastWins(recs, ord, atMap, st) ==
  IF st.toScan = <<>> THEN st
  ELSE LET record == Head(st.toScan)
           type == recs[record].Type
           visited == st.visited \cup {record}
           result == IF type \in atMap
                     THEN (type :> <<record>>) @@ st.result
                     ELSE st.result
           st1 == [toScan |-> Tail(st.toScan), visited |-> visited, result |-> result,
                   scanned |-> Append(st.scanned, record), done |-> FALSE]
       IN IF Cardinality(DOMAIN result) = Cardinality(atMap)
          THEN [st1 EXCEPT !.done = TRUE]
          ELSE ScanLoopLastWins(recs, ord, atMap,
                 [st1 EXCEPT !.toScan = @ \o SelectSeq(ChildrenOrd(recs, record, ord),
                      LAMBDA c : c \notin visited /\ ~recs[c].IsCompany)])

\* One pass of the inner loop of AddressGet, run until toScan is empty or
\* every wanted type has a match.  st = [toScan, visited, result, scanned,
\* done]; scanned lists the records dequeued, in order.
RECURSIVE ScanLoop(_, _, _, _)
ScanLoop(recs, ord, atMap, st) ==
  IF st.toScan = <<>> THEN st
  ELSE LET record == Head(st.toScan)
           type == recs[record].Type
           visited == st.visited \cup {record}
           result == IF type \in atMap /\ type \notin DOMAIN st.result
                     THEN st.result @@ (type :> <<record>>)
                     ELSE st.result
           st1 == [toScan |-> Tail(st.toScan), visited |-> visited, result |-> result,
                   scanned |-> Append(st.scanned, record), done |-> FALSE]
       IN IF Cardinality(DOMAIN result) = Cardinality(atMap)
          THEN [st1 EXCEPT !.done = TRUE]
          ELSE ScanLoop(recs, ord, atMap,
                 [st1 EXCEPT !.toScan = @ \o SelectSeq(ChildrenOrd(recs, record, ord),
                      LAMBDA c : c \notin visited /\ ~recs[c].IsCompany)])

\* Mutant: the scan continues at the parent of a company.
RECURSIVE AncestorLoopNoStop(_, _, _, _, _)
AncestorLoopNoStop(recs, ord, atMap, st, currentPartner) ==
  IF currentPartner = 0 THEN st
  ELSE LET s1 == ScanLoop(recs, ord, atMap, [st EXCEPT !.toScan = <<currentPartner>>])
       IN IF s1.done THEN s1
          ELSE AncestorLoopNoStop(recs, ord, atMap, s1, recs[currentPartner].Parent)

\* for !currentPartner.IsEmpty() { ... currentPartner = currentPartner.Parent() }
RECURSIVE AncestorLoop(_, _, _, _, _)
AncestorLoop(recs, ord, atMap, st, currentPartner) ==
  IF currentPartner = 0 THEN st
  ELSE LET s1 == ScanLoop(recs, ord, atMap, [st EXCEPT !.toScan = <<currentPartner>>])
       IN IF s1.done THEN s1
          ELSE IF recs[currentPartner].IsCompany \/ recs[currentPartner].Parent = 0 THEN s1
          ELSE AncestorLoop(recs, ord, atMap, s1, recs[currentPartner].Parent)

\* for _, partner := range rs.Records() { ... }
RECURSIVE SeedLoop(_, _, _, _, _, _)
SeedLoop(recs, ord, atMap, st, rs, i) ==
  IF i > Len(rs) \/ st.done THEN st
  ELSE SeedLoop(recs, ord, atMap, AncestorLoop(recs, ord, atMap, st, rs[i]), rs, i + 1)

\* Mutant: an unmatched type always falls back on the record set itself.
defSelf(result, rs) == rs

\* def := rs; if ct, ok := result["contact"]; ok { def = ct }
def(result, rs) == IF "contact" \in DOMAIN result THEN result["contact"] ELSE rs

\* for _, addrType := range addrTypes { if _, ok := result[addrType]; !ok { ... } }
RECURSIVE Defaults(_, _, _, _)
Defaults(result, addrTypes, d, i) ==
  IF i > Len(addrTypes) THEN result
  ELSE Defaults(IF addrTypes[i] \in DOMAIN result THEN result
                ELSE result @@ (addrTypes[i] :> d),
                addrTypes, d, i + 1)

\* AddressGet(addrTypes) on the record set rs, the store returning children
\* in the order ord.  result is the returned map (type -> record set),
\* matched the map before the defaults were applied.
AddressGet(recs, rs, addrTypes, ord) ==
  LET atMap == Range(addrTypes) \cup {"contact"}
      st == SeedLoop(recs, ord, atMap,
                     [toScan |-> <<>>, visited |-> {}, result |-> <<>>,
                      scanned |-> <<>>, done |-> FALSE], rs, 1)
  IN [result |-> Defaults(st.result, addrTypes, def(st.result, rs), 1),
      matched |-> st.result,
      scanned |-> st.scanned]

---------------------------------------------------------------------------
\* Operations

\* What the last operation was: its name, its record set, its values, whether
\* it panicked (and was rolled back), the number of FieldsSync invocations it
\* made, whether HandleFirsrtContactCreation wrote the parent's address and,
\* for AddressGet, its arguments and results.
NoOp ==
  [op |-> "Init", rs |-> <<>>, vals |-> <<>>, failed |-> FALSE, syncs |-> 0,
   adopted |-> FALSE,
   addrTypes |-> <<>>, ord |-> <<>>, result |-> <<>>, matched |-> <<>>, scanned |-> <<>>]

Init == partners = <<>> /\ last = NoOp /\ nops = 0

NewDB == [recs |-> partners, panic |-> FALSE, syncs |-> 0, adopted |-> FALSE]

\* A panic aborts the transaction: the store is left as it was.
Commit(db, op, rs, vals) ==
  /\ partners' = IF db.panic THEN partners ELSE db.recs
  /\ last' = [NoOp EXCEPT !.op = op, !.rs = rs, !.vals = vals,
                          !.failed = db.panic, !.syncs = db.syncs,
                          !.adopted = db.adopted]

\* h.Partner().Create(env, vals)
CreateOp(vals) ==
  /\ Len(partners) < MaxPartners
  /\ Has(vals, "Parent") => vals["Parent"] \in 0..Len(partners)
  /\ \E db \in {Create(NewDB, vals)} : Commit(db, "Create", <<Len(partners) + 1>>, vals)

\* partner.Write(vals), without goto_super in the context
WriteOp(id, vals) ==
  /\ id \in 1..Len(partners)
  /\ Has(vals, "Parent") => vals["Parent"] \in 0..Len(partners)
  /\ \E db \in {Write(NewDB, <<id>>, vals, FALSE)} : Commit(db, "Write", <<id>>, vals)

\* What UpdateAddress returns: false when vals has no address field, the
\* result of the write otherwise.
UpdateAddressResult(vals) == DOMAIN Restrict(vals, Range(AddressFields)) # {}

\* rs.UpdateAddress(vals)
UpdateAddressOp(rs, vals) ==
  /\ rs # <<>>
  /\ Range(rs) \subseteq 1..Len(partners)
  /\ \E db \in {UpdateAddress(NewDB, rs, vals)} :
       /\ partners' = IF db.panic THEN partners ELSE db.recs
       /\ last' = [NoOp EXCEPT !.op = "UpdateAddress", !.rs = rs, !.vals = vals,
                               !.failed = db.panic, !.syncs = db.syncs,
                               !.result = UpdateAddressResult(vals)]

\* rs.AddressGet(addrTypes)
AddressGetOp(rs, addrTypes, ord) ==
  /\ rs # <<>>
  /\ Range(rs) \subseteq 1..Len(partners)
  /\ LET r == AddressGet(partners, rs, addrTypes, ord)
     IN last' = [NoOp EXCEPT !.op = "AddressGet", !.rs = rs, !.addrTypes = addrTypes,
                             !.ord = ord, !.result = r.result, !.matched = r.matched,
                             !.scanned = r.scanned]
  /\ UNCHANGED <<partners, nops>>

---------------------------------------------------------------------------
\* Inputs

\* The PartnerData values that set f to a value of S, or do not have f.
Opt(f, S) == {<<>>} \cup {f :> v : v \in S}

Both(A, B) == {a @@ b : a \in A, b \in B}

\* Values for the specification of the hierarchy: parent links and company
\* flags.
HierarchyCreateVals == Both(Opt("Parent", 1..MaxPartners), Opt("IsCompany", {TRUE}))

HierarchyWriteVals ==
  {"Parent" :> p : p \in 0..MaxPartners} \cup {"IsCompany" :> b : b \in BOOLEAN}

HierarchyCreate ==
  \E vals \in HierarchyCreateVals : CreateOp(vals) /\ UNCHANGED nops

HierarchyWrite ==
  \E id \in 1..MaxPartners, vals \in HierarchyWriteVals : WriteOp(id, vals) /\ UNCHANGED nops

Next == HierarchyCreate \/ HierarchyWrite

Spec == Init /\ [][Next]_vars

\* Values for the specification of the commercial fields: parent links,
\* company flags, archived records and values of VAT.  At most MaxOps
\* operations are made.
CommercialCreateVals ==
  Both(Opt("Parent", 1..MaxPartners),
       Both(Opt("IsCompany", {TRUE}), Opt("VAT", 1..MaxVal)))

CommercialWriteVals ==
  {"Parent" :> p : p \in 0..MaxPartners} \cup {"IsCompany" :> b : b \in BOOLEAN}
    \cup {"Active" :> b : b \in BOOLEAN} \cup {"VAT" :> v : v \in 0..MaxVal}

CommercialCreate ==
  \E vals \in CommercialCreateVals :
    nops < MaxOps /\ CreateOp(vals) /\ nops' = nops + 1

CommercialWrite ==
  \E id \in 1..MaxPartners, vals \in CommercialWriteVals :
    nops < MaxOps /\ WriteOp(id, vals) /\ nops' = nops + 1

NextCommercial == CommercialCreate \/ CommercialWrite

SpecCommercial == Init /\ [][NextCommercial]_vars

\* Values for the specification of the address fields: parent links, one of
\* the flags company / not a contact / archived, and values of Street and
\* City.  At most MaxOps operations are made.
AddressVals == {<<>>} \cup {"Street" :> 1} \cup {"City" :> v : v \in 2..MaxVal}

AddressFlags == {<<>>} \cup {"IsCompany" :> TRUE} \cup {"Type" :> "other"} \cup {"Active" :> FALSE}

AddressCreateVals == Both(Opt("Parent", 1..MaxPartners), Both(AddressFlags, AddressVals))

AddressWriteVals ==
  (Both(Opt("Parent", 0..MaxPartners), Opt("Street", {0, MaxVal})) \ {<<>>})
    \cup {"City" :> v : v \in 2..MaxVal}
    \cup {"Type" :> t : t \in {"contact", "other"}}

AddressCreate ==
  \E vals \in AddressCreateVals :
    nops < MaxOps /\ CreateOp(vals) /\ nops' = nops + 1

AddressWrite ==
  \E id \in 1..MaxPartners, vals \in AddressWriteVals :
    nops < MaxOps /\ WriteOp(id, vals) /\ nops' = nops + 1

NextAddress == AddressCreate \/ AddressWrite

SpecAddress == Init /\ [][NextAddress]_vars

\* Values for the specification of the address resolver: parent links, the
\* types contact and invoice, companies.  A query is made on one partner or
\* on an ordered pair of partners, and the store returns children by
\* ascending or by descending ID.
AddressGetCreateVals ==
  Both(Opt("Parent", 1..MaxPartners),
       Both(Opt("Type", {"invoice"}), Opt("IsCompany", {TRUE})))

AddrTypes == {<<>>, <<"contact">>, <<"invoice">>, <<"invoice", "delivery">>}

Seeds == {<<a>> : a \in 1..MaxPartners}
           \cup ({<<a, b>> : a, b \in 1..MaxPartners} \ {<<a, a>> : a \in 1..MaxPartners})

RECURSIVE Ascending(_)
Ascending(n) == IF n = 0 THEN <<>> ELSE Append(Ascending(n - 1), n)

RECURSIVE Descending(_)
Descending(n) == IF n = 0 THEN <<>> ELSE <<n>> \o Descending(n - 1)

\* AddressGet leaves the store as it is: what can follow a query can follow
\* the state the query was made in, and a behaviour ends with its query.
AddressGetCreate ==
  \E vals \in AddressGetCreateVals :
    last.op # "AddressGet" /\ CreateOp(vals) /\ UNCHANGED nops

AddressGetQuery ==
  \E rs \in Seeds, addrTypes \in AddrTypes :
    \E ord \in {Ascending(Len(partners)), Descending(Len(partners))} :
      last.op # "AddressGet" /\ AddressGetOp(rs, addrTypes, ord)

NextAddressGet == AddressGetCreate \/ AddressGetQuery

SpecAddressGet == Init /\ [][NextAddressGet]_vars

\* Values for the specification of UpdateAddress called on its own: creates
\* with a parent link and a Street, then UpdateAddress on one record or on
\* two, with values that have address fields, other fields, both or none.
\* At most MaxOps operations are made.
UpdateAddressCreateVals == Both(Opt("Parent", 1..MaxPartners), Opt("Street", {1}))

UpdateAddressVals ==
  {<<>>, "VAT" :> 1, "Street" :> 0, "Street" :> MaxVal,
   ("Street" :> MaxVal) @@ ("VAT" :> 1), ("City" :> MaxVal) @@ ("Parent" :> 1)}

UpdateAddressSets ==
  {<<a>> : a \in 1..MaxPartners}
    \cup {p \in (1..MaxPartners) \X (1..MaxPartners) : p[1] < p[2]}

UpdateAddressCreate ==
  \E vals \in UpdateAddressCreateVals :
    nops < MaxOps /\ CreateOp(vals) /\ nops' = nops + 1

UpdateAddressCall ==
  \E rs \in UpdateAddressSets, vals \in UpdateAddressVals :
    nops < MaxOps /\ UpdateAddressOp(rs, vals) /\ nops' = nops + 1

NextUpdateAddress == UpdateAddressCreate \/ UpdateAddressCall

SpecUpdateAddress == Init /\ [][NextUpdateAddress]_vars

---------------------------------------------------------------------------
\* Definitions the properties are stated with

PartnerIds == 1..Len(partners)

\* The transitive ancestors of e along the Parent links.
RECURSIVE AncestorSet(_, _, _)
AncestorSet(recs, e, seen) ==
  LET p == recs[e].Parent
  IN IF p = 0 \/ p \in seen THEN seen ELSE AncestorSet(recs, p, seen \cup {p})

Ancestors(recs, e) == AncestorSet(recs, e, {})

Acyclic(recs) == \A e \in 1..Len(recs) : e \notin Ancestors(recs, e)

\* The ancestors-or-self of e at which commercial resolution may stop.
Boundaries(recs, e) ==
  {a \in {e} \cup Ancestors(recs, e) : recs[a].IsCompany \/ recs[a].Parent = 0}

---------------------------------------------------------------------------
\* Properties of the hierarchy (specification Spec)

\* C1: a write that assigns p as Parent of e, where e is p or a transitive
\* ancestor of p, panics and leaves every Parent link (and the number of
\* records) as it was; and in every reachable state no partner is its own
\* transitive ancestor.
C1_CycleRejected ==
  /\ [][(/\ last'.op = "Write"
         /\ Has(last'.vals, "Parent")
         /\ last'.vals["Parent"] # 0
         /\ \/ last'.rs[1] = last'.vals["Parent"]
            \/ last'.rs[1] \in Ancestors(partners, last'.vals["Parent"]))
        => (/\ last'.failed
            /\ Len(partners') = Len(partners)
            /\ \A i \in PartnerIds : partners'[i].Parent = partners[i].Parent)]_vars
  /\ [](Acyclic(partners))

\* A write that would have made a partner the parent of one of its proper
\* ancestors has panicked.
C1_Witness ==
  /\ last.op = "Write"
  /\ last.failed
  /\ last.vals["Parent"] # last.rs[1]
  /\ last.rs[1] \in Ancestors(partners, last.vals["Parent"])

\* C8: the stored CommercialPartner of every partner obeys the rule (itself
\* when it is a company or has no parent, its parent's CommercialPartner
\* otherwise) and is the nearest ancestor-or-self that is a company or a root.
C8_NearestCompanyOrRoot ==
  \A e \in PartnerIds :
    LET cp == partners[e].CommercialPartner
    IN /\ cp = (IF partners[e].IsCompany \/ partners[e].Parent = 0
                THEN e ELSE partners[partners[e].Parent].CommercialPartner)
       /\ cp \in Boundaries(partners, e)
       /\ \A a \in Boundaries(partners, e) : a = cp \/ a \in Ancestors(partners, cp)

\* After a write of Parent, a partner resolves to a company other than
\* itself that is not the root of its tree.
C8_Witness ==
  /\ last.op = "Write"
  /\ Has(last.vals, "Parent")
  /\ ~last.failed
  /\ \E e \in PartnerIds :
       LET cp == partners[e].CommercialPartner
       IN cp # e /\ partners[cp].IsCompany /\ partners[cp].Parent # 0

\* C9: the CommercialPartner of every partner is a company or has no parent.
C9_CommercialPartnerIsBoundary ==
  \A e \in PartnerIds :
    \/ partners[partners[e].CommercialPartner].IsCompany
    \/ partners[partners[e].CommercialPartner].Parent = 0

\* After a write of IsCompany, a partner resolves to another partner that is
\* not a company (the root of its tree).
C9_Witness ==
  /\ last.op = "Write"
  /\ Has(last.vals, "IsCompany")
  /\ ~last.failed
  /\ \E e \in PartnerIds :
       /\ partners[e].CommercialPartner # e
       /\ partners[e].Parent # partners[e].CommercialPartner
       /\ ~partners[partners[e].CommercialPartner].IsCompany

\* C10: commercial resolution is idempotent: resolving the resolved partner
\* gives the resolved partner.
C10_ResolveIdempotent ==
  \A e \in PartnerIds :
    ComputeCommercialPartner(partners, ComputeCommercialPartner(partners, e))
      = ComputeCommercialPartner(partners, e)

\* A partner two levels below the partner it resolves to.
C10_Witness ==
  \E e \in PartnerIds :
    LET cp == ComputeCommercialPartner(partners, e)
    IN /\ cp # e
       /\ partners[e].Parent # cp
       /\ ComputeCommercialPartner(partners, partners[e].Parent) = cp

---------------------------------------------------------------------------
\* Properties of the commercial fields (specification SpecCommercial)

\* The descendants of b reached from b through active records that are not
\* companies (the Children relation, not crossing a company).
NonCompanyDescendants(recs, b) ==
  {d \in 1..Len(recs) :
     /\ b \in Ancestors(recs, d)
     /\ \A x \in {d} \cup Ancestors(recs, d) :
          b \in Ancestors(recs, x) => ~recs[x].IsCompany /\ recs[x].Active}

\* The case of C2: the last operation ran FieldsSync on b, which is its own
\* commercial partner, has a commercial field set and has children.
SyncedBoundary(b) ==
  /\ last.op \in {"Create", "Write"}
  /\ ~last.failed
  /\ last.rs = <<b>>
  /\ partners[b].CommercialPartner = b
  /\ \E i \in 1..Len(CommercialFields) : ~IsZero(partners[b][CommercialFields[i]])
  /\ Children(partners, b) # <<>>

\* C2: after FieldsSync ran on a partner b that is its own commercial
\* partner, has a commercial field set and has children, every descendant of
\* b reached through non-company records has b's value of every commercial
\* field, at any depth.
C2_CommercialPushAnyDepth ==
  \A b \in PartnerIds :
    SyncedBoundary(b) =>
      \A d \in NonCompanyDescendants(partners, b) :
        \A i \in 1..Len(CommercialFields) :
          partners[d][CommercialFields[i]] = partners[b][CommercialFields[i]]

\* A write of VAT on such a partner b, with a descendant two levels below.
C2_Witness ==
  \E b \in PartnerIds :
    /\ SyncedBoundary(b)
    /\ last.op = "Write"
    /\ Has(last.vals, "VAT")
    /\ \E d \in NonCompanyDescendants(partners, b) : partners[d].Parent # b

---------------------------------------------------------------------------
\* Properties of the address fields (specification SpecAddress)

\* The address of a record, field by field in the order of AddressFields.
Address(r) == <<r.Street, r.Street2, r.Zip, r.City, r.State, r.Country>>

\* The case of C3: the last operation created or wrote the contact c alone,
\* and the parent of c has a street.
PulledContact(c) ==
  /\ last.op \in {"Create", "Write"}
  /\ ~last.failed
  /\ last.rs = <<c>>
  /\ partners[c].Type = "contact"
  /\ partners[c].Parent # 0
  /\ ~IsZero(partners[partners[c].Parent].Street)

C6_FirstContactAddressAdopted ==
  [][(/\ last'.op = "Create"
      /\ ~last'.failed
      /\ Has(last'.vals, "Parent")
      /\ last'.vals["Parent"] # 0
      /\ LET c == last'.rs[1]
             p == last'.vals["Parent"]
         IN /\ partners[p].IsCompany \/ partners[p].Parent = 0
            /\ Children(partners', p) = <<c>>
            /\ \E i \in 1..Len(AddressFields) : ~IsZero(partners'[c][AddressFields[i]])
            /\ \A i \in 1..Len(AddressFields) : IsZero(partners[p][AddressFields[i]]))
     => Address(partners'[last'.vals["Parent"]]) = Address(partners'[last'.rs[1]])]_vars

\* The create of the only active child of a company that itself has a
\* parent gave that company its address, a City without a Street.
C6_Witness ==
  /\ last.op = "Create"
  /\ last.adopted
  /\ LET c == last.rs[1]
         p == partners[c].Parent
     IN /\ Children(partners, p) = <<c>>
        /\ partners[p].IsCompany
        /\ partners[p].Parent # 0
        /\ IsZero(partners[p].Street)
        /\ ~IsZero(partners[p].City)
        /\ Address(partners[p]) = Address(partners[c])

\* C7: the create of a partner under a parent p that has another active
\* child, or has an address field set, or is neither a company nor a root,
\* leaves every address field of p as it was.
C7_NoAdoptionOtherwise ==
  [][(/\ last'.op = "Create"
      /\ ~last'.failed
      /\ Has(last'.vals, "Parent")
      /\ last'.vals["Parent"] # 0
      /\ LET p == last'.vals["Parent"]
         IN \/ Children(partners, p) # <<>>
            \/ \E i \in 1..Len(AddressFields) : ~IsZero(partners[p][AddressFields[i]])
            \/ ~partners[p].IsCompany /\ partners[p].Parent # 0)
     => Address(partners'[last'.vals["Parent"]]) = Address(partners[last'.vals["Parent"]])]_vars

---------------------------------------------------------------------------
\* Properties of the address resolver (specification SpecAddressGet)

\* The records AddressGet may scan from the record set rs: each record of
\* rs, its ancestors up to the first company or root, and below each of
\* these the active children that are not companies, transitively.
RECURSIVE Chain(_, _)
Chain(recs, e) ==
  IF recs[e].IsCompany \/ recs[e].Parent = 0 THEN {e}
  ELSE {e} \cup Chain(recs, recs[e].Parent)

RECURSIVE Below(_, _)
Below(recs, S) ==
  LET T == S \cup {c \in 1..Len(recs) :
                     recs[c].Parent \in S /\ recs[c].Active /\ ~recs[c].IsCompany}
  IN IF T = S THEN S ELSE Below(recs, T)

Region(recs, rs) == Below(recs, UNION {Chain(recs, rs[i]) : i \in 1..Len(rs)})

\* C4 as the specification states it: the map AddressGet returns has an
\* entry for every requested type and an entry for "contact".
C4_ResultHasContact ==
  last.op = "AddressGet" =>
    (Range(last.addrTypes) \cup {"contact"}) \subseteq DOMAIN last.result

ResultAscending ==
  AddressGet(partners, last.rs, last.addrTypes, Ascending(Len(partners)))

ResultDescending ==
  AddressGet(partners, last.rs, last.addrTypes, Descending(Len(partners)))

\* No wanted type has two records within reach of the traversal.
TieFree ==
  \A t \in Range(last.addrTypes) \cup {"contact"} :
    Cardinality({e \in Region(partners, last.rs) : partners[e].Type = t}) <= 1

---------------------------------------------------------------------------
\* Properties of the synchronizer's own writes (specification SpecCommercial)

\* C12 as the specification states it: the writes FieldsSync issues do not
\* invoke FieldsSync again, so that a create or write invokes FieldsSync
\* once per written record.
C12_SyncOncePerRecord ==
  (last.op \in {"Create", "Write"} /\ ~last.failed) => last.syncs = Len(last.rs)

---------------------------------------------------------------------------
\* Properties of the address push (specification SpecAddress)

\* The descendants of e of type contact, at any depth, reached from e
\* through the Children relation (active records).
ContactDescendants(recs, e) ==
  {d \in 1..Len(recs) :
     /\ e \in Ancestors(recs, d)
     /\ recs[d].Type = "contact"
     /\ \A x \in {d} \cup Ancestors(recs, d) : e \in Ancestors(recs, x) => recs[x].Active}

\* C13 as the specification states it: after a write on e that has an
\* address field, every descendant of e of type contact, at any depth, has
\* the written value of each written address field.
C13_AddressPushAnyDepth ==
  (last.op = "Write" /\ ~last.failed) =>
    \A d \in ContactDescendants(partners, last.rs[1]) :
      \A i \in 1..Len(AddressFields) :
        Has(last.vals, AddressFields[i]) =>
          partners[d][AddressFields[i]] = last.vals[AddressFields[i]]

---------------------------------------------------------------------------
\* Properties of the commercial pull and push (specification SpecCommercial)

\* C14: after a create or write that sets a non-empty Parent on e, each
\* commercial field of e has the value of e's commercial partner when that
\* is another record; when e is its own commercial partner each commercial
\* field of e is as it was (or as the same create or write set it).
C14_CommercialPull ==
  [][(/\ last'.op \in {"Create", "Write"}
      /\ ~last'.failed
      /\ Has(last'.vals, "Parent")
      /\ last'.vals["Parent"] # 0)
     => LET e == last'.rs[1]
            cp == partners'[e].CommercialPartner
        IN \A i \in 1..Len(CommercialFields) :
             LET f == CommercialFields[i]
             IN partners'[e][f] =
                  (IF cp # e THEN partners'[cp][f]
                   ELSE IF Has(last'.vals, f) THEN last'.vals[f]
                   ELSE IF last'.op = "Write" THEN partners[e][f]
                   ELSE NewPartner[f])]_vars

\* A write of Parent gave e the VAT of its commercial partner, which is not
\* its parent.
C14_Witness ==
  /\ last.op = "Write"
  /\ Has(last.vals, "Parent")
  /\ ~last.failed
  /\ LET e == last.rs[1]
         cp == partners[e].CommercialPartner
     IN /\ cp # e
        /\ cp # partners[e].Parent
        /\ ~IsZero(partners[e].VAT)
        /\ partners[e].VAT = partners[cp].VAT

---------------------------------------------------------------------------
\* Properties of the traversal of AddressGet (specification SpecAddressGet)

\* The number of Parent links from e up to its ancestor-or-self a.
RECURSIVE Depth(_, _, _)
Depth(recs, e, a) == IF e = a THEN 0 ELSE 1 + Depth(recs, recs[e].Parent, a)

C16_WithinCompanyBoundaries ==
  last.op = "AddressGet" =>
    /\ Range(last.scanned) \subseteq Region(partners, last.rs)
    /\ \A t \in DOMAIN last.matched :
         Range(last.matched[t]) \subseteq Region(partners, last.rs)
    /\ \A i \in 1..Len(last.scanned) :
         partners[last.scanned[i]].IsCompany =>
           \E k \in 1..Len(last.rs) : last.scanned[i] \in Chain(partners, last.rs[k])

\* A child that is a company has a requested type and was not examined, and
\* the parent of a company AddressGet was called on was not examined either.
C16_Witness ==
  /\ last.op = "AddressGet"
  /\ Len(last.rs) = 1
  /\ partners[last.rs[1]].IsCompany
  /\ partners[last.rs[1]].Parent # 0
  /\ partners[last.rs[1]].Parent \notin Range(last.scanned)
  /\ \E c \in PartnerIds :
       /\ partners[c].Parent = last.rs[1]
       /\ partners[c].IsCompany
       /\ partners[c].Type \in Range(last.addrTypes)
       /\ partners[c].Type \notin DOMAIN last.matched
       /\ c \notin Range(last.scanned)

\* C17 as the specification states it: within one call of AddressGet no
\* record is scanned twice.
C17_NoRecordScannedTwice ==
  last.op = "AddressGet" =>
    \A i, j \in 1..Len(last.scanned) : i # j => last.scanned[i] # last.scanned[j]

---------------------------------------------------------------------------
\* Termination of the synchronization (specification SpecCommercial)

\* C18: a create or write, with the synchronization it triggers, comes to
\* an end: it invokes FieldsSync at most once more than there are records,
\* and is never given up after MaxSyncs invocations.
C18_SyncTerminates ==
  /\ last.syncs <= Len(partners) + 1
  /\ last.syncs <= MaxSyncs

\* A write whose synchronization wrote two levels of descendants, each
\* nested write invoking FieldsSync again.
C18_Witness ==
  /\ last.op = "Write"
  /\ ~last.failed
  /\ last.syncs >= 3
  /\ \E d \in PartnerIds :
       /\ partners[d].Parent # 0
       /\ partners[partners[d].Parent].Parent = last.rs[1]

---------------------------------------------------------------------------
\* Frame of the commercial push (specification SpecCommercial)

\* The children of e that are companies, and every record below them.
BehindCompanyChildren(recs, e) ==
  {x \in 1..Len(recs) :
     \E c \in 1..Len(recs) :
       /\ recs[c].Parent = e
       /\ recs[c].IsCompany
       /\ (x = c \/ c \in Ancestors(recs, x))}

\* C19: a write on e, and the commercial push it makes, leaves the
\* commercial fields and the stored CommercialPartner of every child of e
\* that is a company, and of every record below such a child, as they were.
C19_PushStopsAtCompanies ==
  [][(last'.op = "Write" /\ ~last'.failed)
     => \A x \in BehindCompanyChildren(partners, last'.rs[1]) :
          /\ partners'[x].CommercialPartner = partners[x].CommercialPartner
          /\ \A i \in 1..Len(CommercialFields) :
               partners'[x][CommercialFields[i]] = partners[x][CommercialFields[i]]]_vars

\* A write of VAT on e, which is its own commercial partner; a child of e
\* that is a company and a record below that child have another VAT.
C19_Witness ==
  /\ last.op = "Write"
  /\ ~last.failed
  /\ Has(last.vals, "VAT")
  /\ ~IsZero(last.vals["VAT"])
  /\ partners[last.rs[1]].CommercialPartner = last.rs[1]
  /\ \E c, x \in PartnerIds :
       /\ partners[c].Parent = last.rs[1]
       /\ partners[c].IsCompany
       /\ partners[c].Active
       /\ partners[x].Parent = c
       /\ partners[x].VAT = partners[c].VAT
       /\ partners[c].VAT # partners[last.rs[1]].VAT

---------------------------------------------------------------------------
\* Frame of UpdateAddress (specification SpecUpdateAddress)

\* The fields of a record.
PartnerFields == DOMAIN NewPartner

\* C20: UpdateAddress(vals) on a record set gives the records of the set
\* the value vals has of each address field vals has, and leaves every other
\* field of these records and every field of every other record as it was;
\* it invokes FieldsSync on no record; it returns false and writes nothing
\* when vals has no address field.
C20_UpdateAddressFrame ==
  [][last'.op = "UpdateAddress"
     => /\ ~last'.failed
        /\ last'.syncs = 0
        /\ Len(partners') = Len(partners)
        /\ \A x \in PartnerIds : \A f \in PartnerFields :
             partners'[x][f] =
               (IF x \in Range(last'.rs) /\ f \in Range(AddressFields) /\ Has(last'.vals, f)
                THEN last'.vals[f] ELSE partners[x][f])
        /\ last'.result = (\E i \in 1..Len(AddressFields) : Has(last'.vals, AddressFields[i]))
        /\ (~last'.result) => partners' = partners]_vars

\* UpdateAddress with a Street and a VAT wrote the Street of two records,
\* one of which has a child of type contact that keeps another Street, and
\* left their VAT as it was.
C20_Witness ==
  /\ last.op = "UpdateAddress"
  /\ Len(last.rs) = 2
  /\ last.result = TRUE
  /\ Has(last.vals, "Street")
  /\ Has(last.vals, "VAT")
  /\ \A i \in 1..2 : /\ partners[last.rs[i]].Street = last.vals["Street"]
                     /\ partners[last.rs[i]].VAT # last.vals["VAT"]
  /\ \E c \in PartnerIds :
       /\ partners[c].Parent = last.rs[1]
       /\ c \notin Range(last.rs)
       /\ partners[c].Type = "contact"
       /\ partners[c].Street # last.vals["Street"]

====
